---- MODULE Spec2Model ----
(***************************************************************************)
(* Model of rustyoz/modbusbrowser (src/main.go, src/unnamed/part_003):     *)
(* the block planner of handleServerConfig, the address routing and value  *)
(* decoding of handleServer, and the polling / reconnection tasks around   *)
(* the server registry.  Addresses and lengths are Go uint16 values: all   *)
(* arithmetic on them is taken modulo 2^16, as the compiled code does.     *)
(***************************************************************************)
EXTENDS Integers, Sequences, FiniteSets, TLC

\* ------------------------------------------------------------ constants

\* uint16: the width of RegisterBlock.StartAddress / Length
W16 == 65536

\* the protocol ceiling the planner compares against
MaxRegs == 125

\* slots per register bank of ModbusDataModel
BankSize == 10000

\* ------------------------------------------------------------ bounds

\* planner runs per behaviour of SpecPlanner
MaxRuns == 2

\* ------------------------------------------------------------ helpers

U16(x) == x % W16

Max2(a, b) == IF a >= b THEN a ELSE b

Min2(a, b) == IF a <= b THEN a ELSE b

RECURSIVE SumLen(_)
SumLen(bs) == IF bs = <<>> THEN 0 ELSE Head(bs).Length + SumLen(Tail(bs))

\* the addresses a block stands for, as the row loop of handleServer walks them
Span(b) == { U16(b.StartAddress + k) : k \in 0 .. (b.Length - 1) }

\* ------------------------------------------------------------ types

Cfg(a, f, n, l) == [Address |-> a, Format |-> f, Name |-> n, StringLength |-> l]

Blk(s, l, rs) == [StartAddress |-> s, Length |-> l, Registers |-> rs]

\* ------------------------------------------------------------ BlockPlanner

\* registerMap rebuilt from the incoming blocks only, last write wins
RECURSIVE MapOfRegs(_, _)
MapOfRegs(rs, m) ==
    IF rs = <<>> THEN m
    ELSE LET r == Head(rs)
             m2 == [a \in (DOMAIN m) \cup {r.Address} |->
                        IF a = r.Address THEN r ELSE m[a]]
         IN  MapOfRegs(Tail(rs), m2)

RECURSIVE BuildRegisterMap(_, _)
BuildRegisterMap(batch, m) ==
    IF batch = <<>> THEN m
    ELSE BuildRegisterMap(Tail(batch), MapOfRegs(Head(batch).Registers, m))

RebuiltMap_KeepsOld(old, batch) == BuildRegisterMap(batch, old)

\* registerMap := make(map[uint16]RegisterConfig), filled from config.RegisterBlocks
RebuiltMap(old, batch) == BuildRegisterMap(batch, <<>>)

Qualifies_Strict(nb, ex) ==
    /\ nb.StartAddress > ex.StartAddress
    /\ nb.StartAddress <= U16(ex.StartAddress + ex.Length)

\* "blocks overlap or are adjacent"
Qualifies(nb, ex) ==
    /\ nb.StartAddress >= ex.StartAddress
    /\ nb.StartAddress <= U16(ex.StartAddress + ex.Length)

\* the new end alone, whatever the existing block reaches
TotalLength_NewEnd(nb, ex) == U16(U16(nb.StartAddress + nb.Length) - ex.StartAddress)

TotalLength(nb, ex) ==
    LET endAddr == U16(nb.StartAddress + nb.Length)
        existingEndAddr == U16(ex.StartAddress + ex.Length)
    IN  U16(Max2(endAddr, existingEndAddr) - ex.StartAddress)

MergeAllowed_NoCeiling(totalLength) == TRUE

MergeAllowed(totalLength) == totalLength <= MaxRegs

\* index of the block the inner loop merges into, 0 when it ends unmerged
MergeTarget(nb, blocks) ==
    LET cand == { i \in 1 .. Len(blocks) :
                    /\ Qualifies(nb, blocks[i])
                    /\ MergeAllowed(TotalLength(nb, blocks[i])) }
    IN  IF cand = {} THEN 0 ELSE CHOOSE i \in cand : \A j \in cand : i <= j

MergeInto(nb, ex) ==
    [ex EXCEPT !.Length = TotalLength(nb, ex),
               !.Registers = ex.Registers \o nb.Registers]

ChunkLength(remaining) == Min2(remaining, MaxRegs)

NextAddr_Overlap(currentAddr, length) == U16(currentAddr + length - 1)

NextAddr(currentAddr, length) == U16(currentAddr + length)

\* the indexes of regs, from currentRegIdx on, that fall within the chunk
ChunkPicks(regs, currentRegIdx, currentAddr, length) ==
    { i \in currentRegIdx .. Len(regs) :
        /\ regs[i].Address >= currentAddr
        /\ regs[i].Address < U16(currentAddr + length) }

RECURSIVE SeqOfPicks(_, _, _)
SeqOfPicks(regs, picks, i) ==
    IF i > Len(regs) THEN <<>>
    ELSE (IF i \in picks THEN <<regs[i]>> ELSE <<>>) \o SeqOfPicks(regs, picks, i + 1)

RECURSIVE SplitBlock(_, _, _, _)
SplitBlock(remaining, currentAddr, currentRegIdx, regs) ==
    IF remaining = 0 THEN <<>>
    ELSE LET length == ChunkLength(remaining)
             picks == ChunkPicks(regs, currentRegIdx, currentAddr, length)
             nextIdx == IF picks = {} THEN currentRegIdx
                        ELSE (CHOOSE i \in picks : \A j \in picks : j <= i) + 1
             block == Blk(currentAddr, length, SeqOfPicks(regs, picks, 1))
         IN  <<block>> \o
             SplitBlock(remaining - length, NextAddr(currentAddr, length), nextIdx, regs)

\* the loop over config.RegisterBlocks: st = [blocks, newBlocks, trace]
RECURSIVE PlanLoop(_, _)
PlanLoop(batch, st) ==
    IF batch = <<>> THEN st
    ELSE LET nb == Head(batch)
             t == MergeTarget(nb, st.blocks)
             chunks == SplitBlock(nb.Length, nb.StartAddress, 1, nb.Registers)
         IN  IF t # 0
             THEN PlanLoop(Tail(batch),
                    [st EXCEPT !.blocks[t] = MergeInto(nb, st.blocks[t]),
                               !.trace = Append(st.trace,
                                   [block |-> nb, merged |-> TRUE, target |-> t,
                                    chunks |-> <<>>, before |-> st.blocks])])
             ELSE PlanLoop(Tail(batch),
                    [st EXCEPT !.newBlocks = st.newBlocks \o chunks,
                               !.trace = Append(st.trace,
                                   [block |-> nb, merged |-> FALSE, target |-> 0,
                                    chunks |-> chunks, before |-> st.blocks])])

PlanBatch(blocks, batch) ==
    PlanLoop(batch, [blocks |-> blocks, newBlocks |-> <<>>, trace |-> <<>>])

PlannedBlocks_ChunksFirst(blocks, batch) ==
    LET st == PlanBatch(blocks, batch) IN st.newBlocks \o st.blocks

\* server.RegisterBlocks after the POST
PlannedBlocks(blocks, batch) ==
    LET st == PlanBatch(blocks, batch) IN st.blocks \o st.newBlocks

\* ------------------------------------------------------------ routing

\* the switch of the row loop: the bank indexed for addr and the index used
Locate_Gap(addr) ==
    IF addr < 10000 THEN [bank |-> "Coils", offset |-> addr]
    ELSE IF addr < 20000 THEN [bank |-> "DiscreteInputs", offset |-> U16(addr - 10000)]
    ELSE IF addr >= 30000 /\ addr < 40000
         THEN [bank |-> "InputRegisters", offset |-> U16(addr - 30000)]
    ELSE [bank |-> "HoldingRegisters", offset |-> U16(addr - 40000)]

Locate(addr) ==
    IF addr < 10000 THEN [bank |-> "Coils", offset |-> addr]
    ELSE IF addr < 20000 THEN [bank |-> "DiscreteInputs", offset |-> U16(addr - 10000)]
    ELSE IF addr < 40000 THEN [bank |-> "InputRegisters", offset |-> U16(addr - 30000)]
    ELSE [bank |-> "HoldingRegisters", offset |-> U16(addr - 40000)]

\* the switch of pollServer: the read call for a block and the bank it is copied to
PollRoute(start) ==
    IF start < 10000
    THEN [fn |-> "ReadCoils", bank |-> "Coils", address |-> start]
    ELSE IF start < 20000
    THEN [fn |-> "ReadDiscreteInputs", bank |-> "DiscreteInputs",
          address |-> U16(start - 10000)]
    ELSE IF start < 40000
    THEN [fn |-> "ReadInputRegisters", bank |-> "InputRegisters",
          address |-> U16(start - 30000)]
    ELSE [fn |-> "ReadHoldingRegisters", bank |-> "HoldingRegisters",
          address |-> U16(start - 40000)]

\* bank[lo:hi] of a 10,000-slot array: Go panics unless lo <= hi <= cap
SliceOK(lo, hi) == lo <= hi /\ hi <= BankSize

BitBank(bank) == bank \in {"Coils", "DiscreteInputs"}

\* ------------------------------------------------------------ the device

\* what the polled device holds, by pattern: all zero, or the words of a text
\* and of a float at the start of each register bank, and alternating bits
DeviceValue(dev, bank, off) ==
    IF BitBank(bank) THEN (dev = "data" /\ off % 2 = 0)
    ELSE IF dev # "data" THEN 0
    ELSE IF off = 0 THEN 16706
    ELSE IF off = 1 THEN 17152
    ELSE IF off = 2 THEN 16457
    ELSE IF off = 3 THEN 4059
    ELSE 0

\* ------------------------------------------------------------ state

Ids == {"a"}

\* add, upload, delete and configure requests served in one behaviour of Spec
MaxRequests == 3

\* ticks of the wall clock in one behaviour
MaxNow == 2

\* rows one snapshot read may emit before the model stops following it
MaxRows == 6

\* the ModbusServer objects the requests can allocate
Objs == 1 .. MaxRequests

VARIABLES
    servers,            \* the registry: id -> object, 0 when the id is absent
    alloc,              \* number of ModbusServer objects allocated so far
    ID,                 \* per object: ModbusServer.ID
    RegisterBlocks,     \* per object: ModbusServer.RegisterBlocks
    registerMap,        \* per object: ModbusServer.registerMap
    client,             \* per object: "nil", "open" or "closed" (closed, pointer kept)
    ConnectionStatus,   \* per object
    ConnectionError,    \* per object
    LastDataReceived,   \* per object: 0 is the zero time
    dataModel,          \* per object: the four banks (the ranges written so far)
    pollTask,           \* per object: position of its pollServer goroutine
    retryTask,          \* per object: position of its retryConnection goroutine
    addRetry,           \* per object: position of the retry goroutine of handleServers
    get,                \* the snapshot read in progress (handleServer GET)
    device,             \* the polled device's contents (environment)
    now,                \* the wall clock, in ticks
    crashed,            \* a goroutine panicked outside any handler: the process is gone
    lastTick,           \* what the most recent tick body did (its read requests)
    removedIds,         \* history: ids deleted and not registered again since
    tickAfterRemoval,   \* history, per object: its last existence check ran on a removed id
    recovered,          \* history, per object: a retryConnection attempt has succeeded
    mu,                 \* the registry lock: the tasks reading under it, the writers waiting
    smu,                \* per object: the task holding server.mu across a network read
    tasks,              \* the position of each request handler followed lock by lock
    access,             \* history: the last access to a field of a shared ModbusServer
    exported,           \* the configuration file last downloaded (<<>>: none yet)
    handles,            \* history, per object: client handles obtained and not closed
    removed,            \* history, per object: a DELETE took it out of the registry
    requests,           \* history: the number of add, upload, delete and configure requests
    posted,             \* history: the batches posted to the planner, in order
    plan                \* history: per new block of the last batch, what the planner did

vars == <<servers, alloc, ID, RegisterBlocks, registerMap, client, ConnectionStatus,
          ConnectionError, LastDataReceived, dataModel, pollTask, retryTask, addRetry,
          get, device, now, crashed, lastTick, removedIds, tickAfterRemoval, recovered,
          mu, smu, tasks, access, exported, handles, removed, requests, posted,
          plan>>

\* the lock-level state, which only the handlers followed lock by lock change
lockVars == <<mu, smu, tasks, access>>

\* mu.RLock() returns: a Lock() call that waits keeps new readers out
CanRLock == mu.pending = {}

\* mu.Lock() returns: no reader is inside (writers do not block inside)
CanLock == mu.readers = {}

\* the holder of a lock nobody holds
Free == <<"none", 0>>

NoMu == [readers |-> {}, pending |-> {}]

NoTask == [pc |-> "idle", todo |-> {}, obj |-> 0, id |-> ""]

ReqTasks == {"list", "export", "add", "remove", "status"}

NoAccess == [task |-> "", obj |-> 0, field |-> "", kind |-> "", locked |-> TRUE]

\* no handler is in flight and no lock is held
LocksIdle ==
    /\ mu = NoMu
    /\ smu = [o \in Objs |-> Free]
    /\ tasks = [t \in ReqTasks |-> NoTask]
    /\ access = NoAccess

EmptyBanks ==
    [Coils |-> {}, DiscreteInputs |-> {}, InputRegisters |-> {},
     HoldingRegisters |-> {}]

NoTick ==
    [obj |-> 0, at |-> 0, reads |-> <<>>, writes |-> 0, failed |-> 0,
     outcome |-> "none", retries |-> 0]

NoGet ==
    [pc |-> "idle", obj |-> 0, b |-> 1, i |-> 0, rows |-> <<>>, addr |-> 0,
     routed |-> [bank |-> "", offset |-> 0], blk |-> 0]

\* before any request
Init ==
    /\ servers = [i \in Ids |-> 0]
    /\ alloc = 0
    /\ ID = [o \in Objs |-> ""]
    /\ RegisterBlocks = [o \in Objs |-> <<>>]
    /\ registerMap = [o \in Objs |-> <<>>]
    /\ client = [o \in Objs |-> "nil"]
    /\ ConnectionStatus = [o \in Objs |-> ""]
    /\ ConnectionError = [o \in Objs |-> ""]
    /\ LastDataReceived = [o \in Objs |-> 0]
    /\ dataModel = [o \in Objs |-> EmptyBanks]
    /\ pollTask = [o \in Objs |-> "none"]
    /\ retryTask = [o \in Objs |-> "none"]
    /\ addRetry = [o \in Objs |-> "none"]
    /\ get = NoGet
    /\ device = "zero"
    /\ now = 0
    /\ crashed = FALSE
    /\ lastTick = NoTick
    /\ removedIds = {}
    /\ tickAfterRemoval = [o \in Objs |-> FALSE]
    /\ recovered = [o \in Objs |-> FALSE]
    /\ LocksIdle
    /\ exported = <<>>
    /\ handles = [o \in Objs |-> IF client[o] = "open" THEN 1 ELSE 0]
    /\ removed = [o \in Objs |-> FALSE]
    /\ requests = 0
    /\ posted = <<>>
    /\ plan = <<>>

\* server.mu is held by the snapshot read from its first row to its last, and by
\* a polling task across its network read
Locked(o) == (get.obj = o /\ get.pc = "loop") \/ smu[o] # Free

\* ------------------------------------------------------------ handleServerConfig

\* POST /api/servers/config/{id}: the planner run on the registered object
HandleServerConfigPost(id, batch) ==
    /\ ~crashed
    /\ servers[id] # 0
    /\ ~Locked(servers[id])
    /\ LET o == servers[id]
       IN  /\ registerMap' = [registerMap EXCEPT ![o] = RebuiltMap(registerMap[o], batch)]
           /\ RegisterBlocks' =
                 [RegisterBlocks EXCEPT ![o] = PlannedBlocks(RegisterBlocks[o], batch)]
    /\ UNCHANGED <<servers, alloc, ID, client, ConnectionStatus, ConnectionError,
                   LastDataReceived, dataModel, pollTask, retryTask, addRetry, get,
                   device, now, crashed, lastTick, removedIds, tickAfterRemoval,
                   recovered>>
    /\ UNCHANGED <<lockVars, exported, handles, removed>>

\* ------------------------------------------------------------ SpecPlanner

PlanStarts == {0, 100, 9990, 65410, 65411, 65500}

PlanLens == {0, 1, 100, 125, 126, 300}

\* two configs, listed last address first
SampleRegs(s, l) ==
    IF l = 0 THEN <<>>
    ELSE <<Cfg(U16(s + l - 1), "hex", "last", 0), Cfg(s, "decimal", "first", 0)>>

PairBlocks == {Blk(0, 100, <<>>), Blk(50, 100, <<>>), Blk(60, 80, <<>>)}

\* one block per start and length, pairs of overlapping blocks, and the two
\* blocks that meet at the end of the coil addresses
PlanBatches ==
    { <<Blk(s, l, SampleRegs(s, l))>> : s \in PlanStarts, l \in PlanLens }
    \cup { <<b1, b2>> : b1 \in PairBlocks, b2 \in PairBlocks }
    \cup { <<Blk(9990, 10, <<>>)>>, <<Blk(10000, 10, <<>>)>> }

\* object 1 as handleServers leaves it after a successful connect, registered as id
Added(id, dev) ==
    /\ servers = [i \in Ids |-> IF i = id THEN 1 ELSE 0]
    /\ alloc = 1
    /\ ID = [o \in Objs |-> IF o = 1 THEN id ELSE ""]
    /\ client = [o \in Objs |-> IF o = 1 THEN "open" ELSE "nil"]
    /\ ConnectionStatus = [o \in Objs |-> IF o = 1 THEN "ok" ELSE ""]
    /\ ConnectionError = [o \in Objs |-> ""]
    /\ LastDataReceived = [o \in Objs |-> 0]
    /\ dataModel = [o \in Objs |-> EmptyBanks]
    /\ pollTask = [o \in Objs |-> IF o = 1 THEN "waiting" ELSE "none"]
    /\ retryTask = [o \in Objs |-> "none"]
    /\ addRetry = [o \in Objs |-> "none"]
    /\ get = NoGet
    /\ device = dev
    /\ now = 0
    /\ crashed = FALSE
    /\ lastTick = NoTick
    /\ removedIds = {}
    /\ tickAfterRemoval = [o \in Objs |-> FALSE]
    /\ recovered = [o \in Objs |-> FALSE]
    /\ LocksIdle
    /\ exported = <<>>
    /\ handles = [o \in Objs |-> IF client[o] = "open" THEN 1 ELSE 0]
    /\ removed = [o \in Objs |-> FALSE]
    /\ requests = 0
    /\ posted = <<>>
    /\ plan = <<>>

InitPlanner ==
    /\ Added("a", "zero")
    /\ RegisterBlocks = [o \in Objs |-> <<>>]
    /\ registerMap = [o \in Objs |-> <<>>]

PlannerRun ==
    /\ Len(posted) < MaxRuns
    /\ \E batch \in PlanBatches :
          /\ HandleServerConfigPost("a", batch)
          /\ posted' = Append(posted, batch)
          /\ plan' = PlanBatch(RegisterBlocks[1], batch).trace
          /\ UNCHANGED requests

NextPlanner == PlannerRun

SpecPlanner == InitPlanner /\ [][NextPlanner]_vars

\* ------------------------------------------------------------ handleServers

Registered(o) == \E id \in Ids : servers[id] = o

\* the new object of handleServers, its entry in the registry and its poller
RegisterServer(id, connected) ==
    /\ ~crashed
    /\ LET o == alloc + 1
       IN  /\ alloc' = o
           /\ ID' = [ID EXCEPT ![o] = id]
           /\ RegisterBlocks' = [RegisterBlocks EXCEPT ![o] = <<>>]
           /\ registerMap' = [registerMap EXCEPT ![o] = <<>>]
           /\ dataModel' = [dataModel EXCEPT ![o] = EmptyBanks]
           /\ client' = [client EXCEPT ![o] = IF connected THEN "open" ELSE "nil"]
           /\ ConnectionStatus' =
                 [ConnectionStatus EXCEPT ![o] = IF connected THEN "ok" ELSE "error"]
           /\ ConnectionError' =
                 [ConnectionError EXCEPT ![o] = IF connected THEN "" ELSE "connect failed"]
           /\ addRetry' = [addRetry EXCEPT ![o] = IF connected THEN "none" ELSE "running"]
           /\ servers' = [servers EXCEPT ![id] = o]
           /\ pollTask' = [pollTask EXCEPT ![o] = "waiting"]
           /\ handles' = [handles EXCEPT ![o] = IF connected THEN 1 ELSE 0]
    /\ removedIds' = removedIds \ {id}
    /\ UNCHANGED removed
    /\ UNCHANGED <<LastDataReceived, retryTask, get, device, now, crashed, lastTick,
                   tickAfterRemoval,
                   recovered>>

\* POST /api/servers: a new object, connected or with its retry goroutine,
\* entered under id (over any earlier entry) and handed to pollServer
HandleServersPost(id, connected) ==
    /\ RegisterServer(id, connected)
    /\ UNCHANGED <<lockVars, exported>>

\* the retry goroutine of handleServers: one connect attempt
AddRetryAttempt(o, connected) ==
    /\ ~crashed
    /\ addRetry[o] = "running"
    /\ ~Locked(o)
    /\ IF connected
       THEN /\ client' = [client EXCEPT ![o] = "open"]
            /\ ConnectionStatus' = [ConnectionStatus EXCEPT ![o] = "ok"]
            /\ ConnectionError' = [ConnectionError EXCEPT ![o] = ""]
            /\ addRetry' = [addRetry EXCEPT ![o] = "none"]
            /\ handles' = [handles EXCEPT ![o] = @ + 1]
       ELSE /\ ConnectionStatus' = [ConnectionStatus EXCEPT ![o] = "error"]
            /\ ConnectionError' = [ConnectionError EXCEPT ![o] = "connect failed"]
            /\ UNCHANGED <<client, addRetry, handles>>
    /\ UNCHANGED <<servers, alloc, ID, RegisterBlocks, registerMap, LastDataReceived,
                   dataModel, pollTask, retryTask, get, device, now, crashed, lastTick,
                   removedIds, tickAfterRemoval,
                   recovered, requests, posted, plan>>
    /\ UNCHANGED <<lockVars, exported, removed>>

\* ------------------------------------------------------------ handleServer DELETE

\* the body of the DELETE case under mu.Lock()
RemoveEntry(id) ==
    /\ ~crashed
    /\ servers[id] # 0
    /\ LET o == servers[id]
       IN  /\ client' = [client EXCEPT ![o] = IF client[o] = "nil" THEN "nil" ELSE "closed"]
           /\ handles' = [handles EXCEPT ![o] = IF client[o] = "open" THEN @ - 1 ELSE @]
           /\ removed' = [removed EXCEPT ![o] = TRUE]
    /\ servers' = [servers EXCEPT ![id] = 0]
    /\ removedIds' = removedIds \cup {id}
    /\ UNCHANGED <<alloc, ID, RegisterBlocks, registerMap, ConnectionStatus,
                   ConnectionError, LastDataReceived, dataModel, pollTask, retryTask,
                   addRetry, get, device, now, crashed, lastTick, tickAfterRemoval,
                   recovered>>

HandleServerDelete(id) ==
    /\ RemoveEntry(id)
    /\ UNCHANGED <<lockVars, exported>>

\* ------------------------------------------------------------ handleConfigUpload

\* a *ModbusServer as json.Decode leaves it: the exported fields of the file
FileServer(id, blocks, status, err, last) ==
    [ID |-> id, RegisterBlocks |-> blocks, ConnectionStatus |-> status,
     ConnectionError |-> err, LastDataReceived |-> last]

\* one server of an uploaded configuration: its fields are the file's; a failed
\* connect reports the error and skips the server
UploadServer(f, connected) ==
    /\ ~crashed
    /\ IF connected
       THEN LET o == alloc + 1
            IN  /\ alloc' = o
                /\ ID' = [ID EXCEPT ![o] = f.ID]
                /\ RegisterBlocks' = [RegisterBlocks EXCEPT ![o] = f.RegisterBlocks]
                /\ registerMap' =
                      [registerMap EXCEPT ![o] = BuildRegisterMap(f.RegisterBlocks, <<>>)]
                /\ dataModel' = [dataModel EXCEPT ![o] = EmptyBanks]
                /\ client' = [client EXCEPT ![o] = "open"]
                /\ ConnectionStatus' = [ConnectionStatus EXCEPT ![o] = f.ConnectionStatus]
                /\ ConnectionError' = [ConnectionError EXCEPT ![o] = f.ConnectionError]
                /\ LastDataReceived' = [LastDataReceived EXCEPT ![o] = f.LastDataReceived]
                /\ servers' = [servers EXCEPT ![f.ID] = o]
                /\ pollTask' = [pollTask EXCEPT ![o] = "waiting"]
                /\ removedIds' = removedIds \ {f.ID}
                /\ handles' = [handles EXCEPT ![o] = 1]
       ELSE UNCHANGED <<alloc, ID, RegisterBlocks, registerMap, dataModel, client,
                        ConnectionStatus, ConnectionError, LastDataReceived, servers,
                        pollTask, removedIds, handles>>
    /\ UNCHANGED <<retryTask, addRetry, get, device, now, crashed, lastTick,
                   tickAfterRemoval, recovered, removed>>
    /\ UNCHANGED <<lockVars, exported>>

\* POST /api/config/upload of a file that holds one server and neither an
\* error message nor a time
HandleConfigUpload(id, blocks, status, connected) ==
    UploadServer(FileServer(id, blocks, status, "", 0), connected)

\* ------------------------------------------------------------ pollServer

Exists_Always(id) == TRUE

\* _, exists := servers[server.ID]
Exists(id) == servers[id] # 0

\* the ticker fires: the existence check of the tick, under mu.RLock()
PollCheck(o) ==
    /\ ~crashed
    /\ pollTask[o] = "waiting"
    /\ CanRLock
    /\ pollTask' = [pollTask EXCEPT ![o] = IF Exists(ID[o]) THEN "checked" ELSE "none"]
    /\ tickAfterRemoval' = [tickAfterRemoval EXCEPT ![o] = ID[o] \in removedIds]
    /\ UNCHANGED <<servers, alloc, ID, RegisterBlocks, registerMap, client,
                   ConnectionStatus, ConnectionError, LastDataReceived, dataModel,
                   retryTask, addRetry, get, device, now, crashed, lastTick, removedIds,
                   recovered, requests, posted, plan>>
    /\ UNCHANGED <<lockVars, exported, handles, removed>>

\* copy(bank[lo:lo+n], values): the device is one pattern throughout a behaviour,
\* so a bank holds the device's values at the offsets written so far and zero
\* elsewhere; the model keeps the written ranges <<lo, n>>
CopyInto(written, lo, n) == IF n = 0 THEN written ELSE written \cup {<<lo, n>>}

\* bank[off] for off inside the bank
BankAt(dm, dev, bank, off) ==
    IF \E r \in dm[bank] : off >= r[1] /\ off < r[1] + r[2]
    THEN DeviceValue(dev, bank, off)
    ELSE IF BitBank(bank) THEN FALSE ELSE 0

\* the loop over server.RegisterBlocks from block j on; the read of block
\* failAt (if any) returns an error
RECURSIVE PollBlocks(_, _, _, _, _, _)
PollBlocks(blocks, j, failAt, dev, at, acc) ==
    IF j > Len(blocks) THEN [acc EXCEPT !.outcome = "ok"]
    ELSE LET block == blocks[j]
             r == PollRoute(block.StartAddress)
             lo == r.address
             hi == U16(r.address + block.Length)
             req == [fn |-> r.fn, bank |-> r.bank, start |-> block.StartAddress,
                     address |-> r.address, quantity |-> block.Length]
             asked == [acc EXCEPT !.reads = Append(acc.reads, req)]
         IN  IF j = failAt
             THEN [asked EXCEPT !.outcome = "error", !.failed = j]
             ELSE IF ~SliceOK(lo, hi)
             THEN [asked EXCEPT !.outcome = "panic"]
             ELSE PollBlocks(blocks, j + 1, failAt, dev, at,
                    [asked EXCEPT !.dm[r.bank] =
                                      CopyInto(asked.dm[r.bank], lo, block.Length),
                                  !.writes = asked.writes + 1,
                                  !.last = at])

\* the poller goes on after a read error
PollerAfterReadError_Continues(pc) == "waiting"

\* go retryConnection(server); return
PollerAfterReadError(pc) == "none"

\* what one tick does between server.mu.Lock() and the Unlock that ends it
TickBody(o, failAt) ==
    /\ ~crashed
    /\ now < MaxNow
    /\ now' = now + 1
    /\ IF client[o] = "nil"
       THEN /\ failAt = 0
            /\ ConnectionStatus' = [ConnectionStatus EXCEPT ![o] = "error"]
            /\ ConnectionError' = [ConnectionError EXCEPT ![o] = "not connected"]
            /\ pollTask' = [pollTask EXCEPT ![o] = "waiting"]
            /\ lastTick' = [NoTick EXCEPT !.obj = o, !.at = now + 1,
                                          !.outcome = "not connected"]
            /\ UNCHANGED <<dataModel, LastDataReceived, retryTask, crashed>>
       ELSE LET res == PollBlocks(RegisterBlocks[o], 1, failAt, device, now + 1,
                         [dm |-> dataModel[o], last |-> LastDataReceived[o],
                          reads |-> <<>>, writes |-> 0, failed |-> 0,
                          outcome |-> "none"])
            IN  /\ failAt <= Len(res.reads)
                /\ dataModel' = [dataModel EXCEPT ![o] = res.dm]
                /\ LastDataReceived' = [LastDataReceived EXCEPT ![o] = res.last]
                /\ lastTick' = [obj |-> o, at |-> now + 1, reads |-> res.reads,
                                writes |-> res.writes, failed |-> res.failed,
                                outcome |-> res.outcome,
                                retries |-> IF res.outcome = "error" THEN 1 ELSE 0]
                /\ crashed' = (res.outcome = "panic")
                /\ IF res.outcome = "ok"
                   THEN /\ ConnectionStatus' = [ConnectionStatus EXCEPT ![o] = "ok"]
                        /\ ConnectionError' = [ConnectionError EXCEPT ![o] = ""]
                        /\ pollTask' = [pollTask EXCEPT ![o] = "waiting"]
                        /\ UNCHANGED retryTask
                   ELSE IF res.outcome = "error"
                   THEN /\ ConnectionStatus' = [ConnectionStatus EXCEPT ![o] = "error"]
                        /\ ConnectionError' = [ConnectionError EXCEPT ![o] = "read failed"]
                        /\ pollTask' =
                              [pollTask EXCEPT ![o] = PollerAfterReadError(pollTask[o])]
                        /\ retryTask' = [retryTask EXCEPT ![o] = "running"]
                   ELSE UNCHANGED <<ConnectionStatus, ConnectionError, pollTask,
                                    retryTask>>
    /\ UNCHANGED <<servers, alloc, ID, RegisterBlocks, registerMap, client, addRetry,
                   get, device, removedIds, tickAfterRemoval,
                   recovered, handles, removed, requests, posted, plan>>

\* the rest of the tick, under server.mu
PollBody(o, failAt) ==
    /\ pollTask[o] = "checked"
    /\ ~Locked(o)
    /\ TickBody(o, failAt)
    /\ UNCHANGED <<lockVars, exported>>

\* ------------------------------------------------------------ retryConnection

\* one iteration of the loop: a connect attempt, then the update under server.mu
RetryConnection(o, connected) ==
    /\ ~crashed
    /\ retryTask[o] = "running"
    /\ ~Locked(o)
    /\ IF connected
       THEN /\ client' = [client EXCEPT ![o] = "open"]
            /\ ConnectionStatus' = [ConnectionStatus EXCEPT ![o] = "ok"]
            /\ ConnectionError' = [ConnectionError EXCEPT ![o] = ""]
            /\ pollTask' = [pollTask EXCEPT ![o] = "waiting"]
            /\ retryTask' = [retryTask EXCEPT ![o] = "none"]
            /\ recovered' = [recovered EXCEPT ![o] = TRUE]
            /\ handles' = [handles EXCEPT ![o] = @ + 1]
       ELSE /\ ConnectionStatus' = [ConnectionStatus EXCEPT ![o] = "error"]
            /\ ConnectionError' = [ConnectionError EXCEPT ![o] = "connect failed"]
            /\ UNCHANGED <<client, pollTask, retryTask, recovered, handles>>
    /\ UNCHANGED <<servers, alloc, ID, RegisterBlocks, registerMap, LastDataReceived,
                   dataModel, addRetry, get, device, now, crashed, lastTick, removedIds,
                   tickAfterRemoval, requests, posted, plan>>
    /\ UNCHANGED <<lockVars, exported, removed>>

\* ------------------------------------------------------------ Spec

\* blocks one planner run may leave in a list of Spec
MaxBlocks == 2

PollBatches == { <<Blk(9990, 20, <<>>)>> }

UploadBlocks == { <<Blk(0, 200, <<>>)>> }

UploadStatus == {""}

\* one more request served
Served ==
    /\ requests < MaxRequests
    /\ requests' = requests + 1
    /\ UNCHANGED <<posted, plan>>

AddServer ==
    Served /\ \E id \in Ids, connected \in BOOLEAN : HandleServersPost(id, connected)

UploadConfig ==
    /\ Served
    /\ \E id \in Ids, blocks \in UploadBlocks, status \in UploadStatus,
          connected \in BOOLEAN :
           HandleConfigUpload(id, blocks, status, connected)

RemoveServer == Served /\ \E id \in Ids : HandleServerDelete(id)

ConfigureServer ==
    /\ Served
    /\ \E id \in Ids, batch \in PollBatches :
          /\ servers[id] # 0
          /\ Len(PlannedBlocks(RegisterBlocks[servers[id]], batch)) <= MaxBlocks
          /\ HandleServerConfigPost(id, batch)

Poll ==
    \E o \in Objs :
        \/ PollCheck(o)
        \/ \E failAt \in 0 .. Len(RegisterBlocks[o]) : PollBody(o, failAt)

Reconnect ==
    \E o \in Objs, connected \in BOOLEAN :
        \/ RetryConnection(o, connected)
        \/ AddRetryAttempt(o, connected)

Next ==
    \/ AddServer
    \/ UploadConfig
    \/ RemoveServer
    \/ ConfigureServer
    \/ Poll
    \/ Reconnect

Spec == Init /\ [][Next]_vars

\* ------------------------------------------------------------ handleServer GET

\* the config of the row: the registerMap entry or the default one
RowConfig(regMap, addr) ==
    IF addr \in DOMAIN regMap THEN regMap[addr]
    ELSE Cfg(addr, "decimal", <<"Register", addr>>, 0)

\* Go's int division truncates toward zero
GoHalf(n) == IF n >= 0 THEN n \div 2 ELSE -((-n) \div 2)

HexDigit(d) == <<"0", "1", "2", "3", "4", "5", "6", "7", "8", "9",
                 "A", "B", "C", "D", "E", "F">>[d + 1]

\* fmt.Sprintf("0x%04X", v)
Hex4(v) ==
    <<"0x", HexDigit((v \div 4096) % 16), HexDigit((v \div 256) % 16),
      HexDigit((v \div 16) % 16), HexDigit(v % 16)>>

\* strings.TrimRight(s, "\x00") on the bytes of s
RECURSIVE TrimNul(_)
TrimNul(bytes) ==
    IF bytes # <<>> /\ bytes[Len(bytes)] = 0
    THEN TrimNul(SubSeq(bytes, 1, Len(bytes) - 1))
    ELSE bytes

\* string([]rune): a surrogate half is not a code point and becomes U+FFFD
RuneOf(reg) == IF reg >= 55296 /\ reg <= 57343 THEN 65533 ELSE reg

\* the register bank the float and string cases index for addr
WordBank(addr) ==
    IF addr < 40000 THEN [bank |-> "InputRegisters", base |-> 30000]
    ELSE [bank |-> "HoldingRegisters", base |-> 40000]

\* the index of register addr+j in that bank
WordIndex(addr, j) == U16(U16(addr + j) - WordBank(addr).base)

\* registers[j] of the string cases: zero past the block, else the bank's word
StringReg(block, dm, dev, addr, j) ==
    IF U16(addr + j) >= U16(block.StartAddress + block.Length) THEN 0
    ELSE BankAt(dm, dev, WordBank(addr).bank, WordIndex(addr, j))

\* some register the string case reads lies outside the 10,000 slots
StringRegPanics(block, addr, n) ==
    \E j \in 0 .. (n - 1) :
        /\ U16(addr + j) < U16(block.StartAddress + block.Length)
        /\ WordIndex(addr, j) >= BankSize

RECURSIVE BytesOf(_, _, _, _, _, _)
BytesOf(block, dm, dev, addr, j, n) ==
    IF j >= n THEN <<>>
    ELSE LET reg == StringReg(block, dm, dev, addr, j)
         IN  <<reg \div 256, reg % 256>> \o BytesOf(block, dm, dev, addr, j + 1, n)

RECURSIVE RunesOf(_, _, _, _, _, _)
RunesOf(block, dm, dev, addr, j, n) ==
    IF j >= n THEN <<>>
    ELSE <<RuneOf(StringReg(block, dm, dev, addr, j))>>
         \o RunesOf(block, dm, dev, addr, j + 1, n)

\* one pass of the row loop at cursor i of block: the row, the cursor after the
\* loop's i++, and whether the pass panics
RowPass(block, i, regMap, dm, dev) ==
    LET addr == U16(block.StartAddress + i)
        cfg == RowConfig(regMap, addr)
        loc == Locate(addr)
        word == ~BitBank(loc.bank)
        value == BankAt(dm, dev, loc.bank, loc.offset)
        blockEnd == U16(block.StartAddress + block.Length)
        sl == cfg.StringLength
        nByte == GoHalf(sl) + 1
        out(v, extra, bad) ==
            [panic |-> bad, routed |-> loc, addr |-> addr,
             row |-> [Address |-> addr, Name |-> cfg.Name, Value |-> v,
                      Format |-> cfg.Format],
             next |-> U16(i + extra + 1)]
    IN  IF loc.offset >= BankSize THEN out("none", 0, TRUE)
        ELSE IF cfg.Format = "hex"
        THEN out(IF word THEN Hex4(value) ELSE value, 0, FALSE)
        ELSE IF cfg.Format = "float"
        THEN IF U16(addr + 1) >= blockEnd THEN out("N/A", 1, FALSE)
             ELSE IF ~word \/ WordIndex(addr, 1) >= BankSize THEN out("none", 1, TRUE)
             ELSE out([float32bits |->
                          value * W16
                          + BankAt(dm, dev, WordBank(addr).bank, WordIndex(addr, 1))],
                      1, FALSE)
        ELSE IF cfg.Format = "boolean"
        THEN out(IF word THEN value # 0 ELSE value, 0, FALSE)
        ELSE IF cfg.Format = "string-byte"
        THEN IF nByte < 0 \/ sl < 0 \/ StringRegPanics(block, addr, U16(nByte))
             THEN out("none", 0, TRUE)
             ELSE out(TrimNul(BytesOf(block, dm, dev, addr, 0, nByte)),
                      U16(GoHalf(sl)), FALSE)
        ELSE IF cfg.Format = "string-word"
        THEN IF sl < 0 \/ StringRegPanics(block, addr, U16(sl))
             THEN out("none", 0, TRUE)
             ELSE out(RunesOf(block, dm, dev, addr, 0, sl), U16(sl - 1), FALSE)
        ELSE out(value, 0, FALSE)

\* GET /api/servers/{id}: the lookup, then server.mu.Lock()
GetBegin(id) ==
    /\ ~crashed
    /\ get.pc = "idle"
    /\ servers[id] # 0
    /\ get' = [NoGet EXCEPT !.pc = "loop", !.obj = servers[id]]
    /\ UNCHANGED <<servers, alloc, ID, RegisterBlocks, registerMap, client,
                   ConnectionStatus, ConnectionError, LastDataReceived, dataModel,
                   pollTask, retryTask, addRetry, device, now, crashed, lastTick,
                   removedIds, tickAfterRemoval, recovered, requests, posted, plan>>
    /\ UNCHANGED <<lockVars, exported, handles, removed>>

\* one step of the two loops; a panic unwinds through the deferred Unlock and
\* ends the request without a response body
GetStep ==
    /\ ~crashed
    /\ get.pc = "loop"
    /\ LET blocks == RegisterBlocks[get.obj]
       IN  \/ /\ get.b > Len(blocks)
              /\ get' = [get EXCEPT !.pc = "done"]
           \/ /\ get.b <= Len(blocks)
              /\ get.i >= blocks[get.b].Length
              /\ get' = [get EXCEPT !.b = get.b + 1, !.i = 0]
           \/ /\ get.b <= Len(blocks)
              /\ get.i < blocks[get.b].Length
              /\ Len(get.rows) < MaxRows
              /\ LET r == RowPass(blocks[get.b], get.i, registerMap[get.obj],
                                  dataModel[get.obj], device)
                 IN  get' = IF r.panic
                            THEN [get EXCEPT !.pc = "aborted", !.addr = r.addr,
                                             !.routed = r.routed, !.blk = get.b]
                            ELSE [get EXCEPT !.i = r.next, !.addr = r.addr,
                                             !.routed = r.routed, !.blk = get.b,
                                             !.rows = Append(get.rows, r.row)]
    /\ UNCHANGED <<servers, alloc, ID, RegisterBlocks, registerMap, client,
                   ConnectionStatus, ConnectionError, LastDataReceived, dataModel,
                   pollTask, retryTask, addRetry, device, now, crashed, lastTick,
                   removedIds, tickAfterRemoval, recovered, requests, posted, plan>>
    /\ UNCHANGED <<lockVars, exported, handles, removed>>

\* ------------------------------------------------------------ SpecSnapshot

SnapStarts == {0, 10000, 25000, 30000, 39999, 40000, 49999, 50000}

SnapLens == {1, 2, 3}

SnapConfigs(a) ==
    { Cfg(a, f, "r", 0) : f \in {"decimal", "hex", "float", "boolean"} }
    \cup { Cfg(a, f, "r", l) : f \in {"string-byte", "string-word"}, l \in {-1, 0, 3} }

\* one block with at most one config, at its first address
SnapBatches ==
    { <<Blk(s, l, <<>>)>> : s \in SnapStarts, l \in SnapLens }
    \cup UNION { { <<Blk(s, l, <<c>>)>> : l \in SnapLens, c \in SnapConfigs(s) } :
                 s \in SnapStarts }

\* server "a" after a successful add and one planner run, before its first tick
InitSnapshot ==
    \E batch \in SnapBatches, dev \in {"zero", "data"} :
        /\ Added("a", dev)
        /\ RegisterBlocks = [o \in Objs |-> IF o = 1 THEN PlannedBlocks(<<>>, batch) ELSE <<>>]
        /\ registerMap = [o \in Objs |-> IF o = 1 THEN BuildRegisterMap(batch, <<>>) ELSE <<>>]

\* the device answers every read
SnapPoll == PollCheck(1) \/ PollBody(1, 0)

NextSnapshot ==
    \/ GetBegin("a")
    \/ GetStep
    \/ SnapPoll

SpecSnapshot == InitSnapshot /\ [][NextSnapshot]_vars

\* ------------------------------------------------------------ the two locks

\* SpecLocks follows the handlers and the polling task lock by lock: mu is the
\* registry's sync.RWMutex, server.mu the sync.Mutex of each ModbusServer

LockIds == {"a", "b", "c"}

\* a polling task and a request handler as lock holders
P(o) == <<"poll", o>>

Rd(t) == <<t, 0>>

\* an access to a field of object o, with or without o's server.mu held
Touch(t, o, field, kind, held) ==
    [task |-> t, obj |-> o, field |-> field, kind |-> kind, locked |-> held]

\* what a step of the lock protocol alone leaves as it is
serverVars ==
    <<servers, alloc, ID, RegisterBlocks, registerMap, client, ConnectionStatus,
      ConnectionError, LastDataReceived, dataModel, retryTask, addRetry, get, device,
      now, crashed, lastTick, removedIds, recovered, exported, handles, removed,
      posted, plan>>

\* server.mu.Lock() of the tick, then the read call goes out to the device
PollLockL(o) ==
    /\ ~crashed
    /\ pollTask[o] = "checked"
    /\ ~Locked(o)
    /\ smu' = [smu EXCEPT ![o] = P(o)]
    /\ pollTask' = [pollTask EXCEPT ![o] = "reading"]
    /\ UNCHANGED <<serverVars, mu, tasks, access, tickAfterRemoval, requests>>

\* the device answers (or the read fails): the rest of the tick and the Unlock
PollReturnL(o, failAt) ==
    /\ pollTask[o] = "reading"
    /\ TickBody(o, failAt)
    /\ smu' = [smu EXCEPT ![o] = Free]
    /\ access' = Touch(P(o), o, "ConnectionStatus", "write", smu[o] = P(o))
    /\ UNCHANGED <<mu, tasks, exported>>

\* handleServers POST (for an id not in use, the connect succeeds) and
\* handleServer DELETE arrive and call mu.Lock()
StartRequest(t, id) ==
    /\ ~crashed
    /\ t \in {"add", "remove"}
    /\ tasks[t].pc = "idle"
    /\ requests < MaxRequests
    /\ requests' = requests + 1
    /\ IF t = "add" THEN alloc < MaxRequests /\ servers[id] = 0 ELSE servers[id] # 0
    /\ tasks' = [tasks EXCEPT ![t] = [NoTask EXCEPT !.pc = "lock", !.id = id]]
    /\ mu' = [mu EXCEPT !.pending = mu.pending \cup {Rd(t)}]
    /\ UNCHANGED <<serverVars, smu, access, pollTask, tickAfterRemoval>>

\* handleServers GET and handleGetConfig: mu.RLock(), then the loop over servers
ListRLock(t) ==
    /\ ~crashed
    /\ t \in {"list", "export"}
    /\ tasks[t].pc = "idle"
    /\ requests < MaxRequests
    /\ requests' = requests + 1
    /\ CanRLock
    /\ mu' = [mu EXCEPT !.readers = mu.readers \cup {Rd(t)}]
    /\ tasks' = [tasks EXCEPT ![t].pc = "iter",
                              ![t].todo = {servers[i] : i \in LockIds} \ {0}]
    /\ UNCHANGED <<serverVars, smu, access, pollTask, tickAfterRemoval>>

\* one pass of that loop: srv.mu.Lock(), the fields (the pointer, for the
\* export), srv.mu.Unlock(), all with mu still read-locked
ListVisit(t, o) ==
    /\ ~crashed
    /\ t \in {"list", "export"}
    /\ tasks[t].pc = "iter"
    /\ o \in tasks[t].todo
    /\ ~Locked(o)
    /\ tasks' = [tasks EXCEPT ![t].todo = tasks[t].todo \ {o}]
    /\ access' = IF t = "list"
                 THEN Touch(Rd(t), o, "ConnectionStatus", "read", TRUE)
                 ELSE access
    /\ UNCHANGED <<serverVars, mu, smu, pollTask, tickAfterRemoval, requests>>

\* the loop is over: mu.RUnlock(); the export encodes the servers it collected
\* before its deferred RUnlock, with no server.mu held
ListEnd(t) ==
    /\ ~crashed
    /\ t \in {"list", "export"}
    /\ tasks[t].pc = "iter"
    /\ tasks[t].todo = {}
    /\ mu' = [mu EXCEPT !.readers = mu.readers \ {Rd(t)}]
    /\ tasks' = [tasks EXCEPT ![t] = NoTask]
    /\ \E i \in LockIds :
          access' = IF t = "export" /\ servers[i] # 0
                    THEN Touch(Rd(t), servers[i], "RegisterBlocks", "read", FALSE)
                    ELSE access
    /\ UNCHANGED <<serverVars, smu, pollTask, tickAfterRemoval, requests>>

\* handleServers POST from mu.Lock() on: the entry, mu.Unlock(), go pollServer,
\* and the response, which for an HTMX request reads the server's fields
AddInsert(htmx) ==
    /\ tasks["add"].pc = "lock"
    /\ CanLock
    /\ RegisterServer(tasks["add"].id, TRUE)
    /\ mu' = [mu EXCEPT !.pending = mu.pending \ {Rd("add")}]
    /\ tasks' = [tasks EXCEPT !["add"] = NoTask]
    /\ access' = IF htmx
                 THEN Touch(Rd("add"), alloc + 1, "ConnectionStatus", "read", FALSE)
                 ELSE access
    /\ UNCHANGED <<smu, exported, requests, posted, plan>>

\* handleServer DELETE: mu.Lock(), server.client read and closed, the entry
\* deleted, mu.Unlock()
RemoveDo ==
    /\ ~crashed
    /\ tasks["remove"].pc = "lock"
    /\ CanLock
    /\ mu' = [mu EXCEPT !.pending = mu.pending \ {Rd("remove")}]
    /\ tasks' = [tasks EXCEPT !["remove"] = NoTask]
    /\ IF servers[tasks["remove"].id] # 0
       THEN /\ RemoveEntry(tasks["remove"].id)
            /\ access' = Touch(Rd("remove"), servers[tasks["remove"].id], "client",
                               "read", FALSE)
            /\ UNCHANGED <<smu, exported, requests, posted, plan>>
       ELSE UNCHANGED <<serverVars, smu, access, pollTask, tickAfterRemoval, requests>>

\* the block every server of SpecLocks polls
LockBlocks == <<Blk(0, 1, <<>>)>>

\* servers "a" and "b", added with a successful connect and configured
InitLocks ==
    /\ servers = [i \in LockIds |-> IF i = "a" THEN 1 ELSE IF i = "b" THEN 2 ELSE 0]
    /\ alloc = 2
    /\ ID = [o \in Objs |-> IF o = 1 THEN "a" ELSE IF o = 2 THEN "b" ELSE ""]
    /\ RegisterBlocks = [o \in Objs |-> IF o <= 2 THEN LockBlocks ELSE <<>>]
    /\ registerMap = [o \in Objs |-> <<>>]
    /\ client = [o \in Objs |-> IF o <= 2 THEN "open" ELSE "nil"]
    /\ ConnectionStatus = [o \in Objs |-> IF o <= 2 THEN "ok" ELSE ""]
    /\ ConnectionError = [o \in Objs |-> ""]
    /\ LastDataReceived = [o \in Objs |-> 0]
    /\ dataModel = [o \in Objs |-> EmptyBanks]
    /\ pollTask = [o \in Objs |-> IF o <= 2 THEN "waiting" ELSE "none"]
    /\ retryTask = [o \in Objs |-> "none"]
    /\ addRetry = [o \in Objs |-> "none"]
    /\ get = NoGet
    /\ device = "zero"
    /\ now = 0
    /\ crashed = FALSE
    /\ lastTick = NoTick
    /\ removedIds = {}
    /\ tickAfterRemoval = [o \in Objs |-> FALSE]
    /\ recovered = [o \in Objs |-> FALSE]
    /\ LocksIdle
    /\ exported = <<>>
    /\ handles = [o \in Objs |-> IF client[o] = "open" THEN 1 ELSE 0]
    /\ removed = [o \in Objs |-> FALSE]
    /\ requests = 0
    /\ posted = <<>>
    /\ plan = <<>>

\* the device answers every read it answers at all
PollL ==
    \E o \in Objs :
        \/ PollCheck(o)
        \/ PollLockL(o)
        \/ PollReturnL(o, 0)

RequestL ==
    \/ \E t \in {"add", "remove"}, id \in LockIds : StartRequest(t, id)
    \/ \E t \in {"list", "export"} :
          \/ ListRLock(t)
          \/ \E o \in Objs : ListVisit(t, o)
          \/ ListEnd(t)
    \/ \E htmx \in BOOLEAN : AddInsert(htmx)
    \/ RemoveDo

NextLocks ==
    \/ PollL
    \/ RequestL

SpecLocks == InitLocks /\ [][NextLocks]_vars

\* ------------------------------------------------------------ export and import

\* json.Marshal of a RegisterConfig: stringLength is left out when it is 0
EncodeRegister(c) ==
    IF c.StringLength = 0
    THEN [name |-> c.Name, format |-> c.Format, address |-> c.Address]
    ELSE [name |-> c.Name, format |-> c.Format, address |-> c.Address,
          stringLength |-> c.StringLength]

\* json.Unmarshal into a RegisterConfig: a missing stringLength stays 0
DecodeRegister(j) ==
    Cfg(j.address, j.format, j.name,
        IF "stringLength" \in DOMAIN j THEN j.stringLength ELSE 0)

EncodeBlock(b) ==
    [startAddress |-> b.StartAddress, length |-> b.Length,
     registers |-> [k \in 1 .. Len(b.Registers) |-> EncodeRegister(b.Registers[k])]]

DecodeBlock(j) ==
    Blk(j.startAddress, j.length,
        [k \in 1 .. Len(j.registers) |-> DecodeRegister(j.registers[k])])

\* json.Marshal of a ModbusServer: client, mu, registerMap and dataModel are
\* tagged "-"; connectionError is left out when it is empty
EncodeServer(o) ==
    LET doc == [id |-> ID[o],
                registerBlocks |->
                    [k \in 1 .. Len(RegisterBlocks[o]) |-> EncodeBlock(RegisterBlocks[o][k])],
                connectionStatus |-> ConnectionStatus[o],
                lastDataReceived |-> LastDataReceived[o]]
    IN  IF ConnectionError[o] = "" THEN doc
        ELSE [k \in DOMAIN doc \cup {"connectionError"} |->
                 IF k = "connectionError" THEN ConnectionError[o] ELSE doc[k]]

DecodeServer(j) ==
    FileServer(j.id,
               [k \in 1 .. Len(j.registerBlocks) |-> DecodeBlock(j.registerBlocks[k])],
               j.connectionStatus,
               IF "connectionError" \in DOMAIN j THEN j.connectionError ELSE "",
               j.lastDataReceived)

\* GET /api/config with one server registered: the file the browser downloads
HandleGetConfig(id) ==
    /\ ~crashed
    /\ servers[id] # 0
    /\ ~Locked(servers[id])
    /\ exported' = <<[servers |-> <<EncodeServer(servers[id])>>]>>
    /\ UNCHANGED <<servers, alloc, ID, RegisterBlocks, registerMap, client,
                   ConnectionStatus, ConnectionError, LastDataReceived, dataModel,
                   pollTask, retryTask, addRetry, get, device, now, crashed, lastTick,
                   removedIds, tickAfterRemoval, recovered, lockVars, handles, removed,
                   requests, posted, plan>>

\* the batches of SpecRestore: a config inside its block, a block without
\* configs, a string config, a config for an address of another block
RestoreBatches ==
    { <<Blk(0, 10, <<Cfg(0, "hex", "x", 0)>>)>>,
      <<Blk(20, 5, <<>>)>>,
      <<Blk(40000, 4, <<Cfg(40000, "string-byte", "s", 3)>>)>>,
      <<Blk(100, 2, <<Cfg(200, "boolean", "y", 0)>>), Blk(200, 2, <<>>)>> }

\* a planner run on the server that is still to be exported
RestorePlannerRun ==
    /\ exported = <<>>
    /\ Len(posted) < MaxRuns
    /\ \E batch \in RestoreBatches :
          /\ HandleServerConfigPost("a", batch)
          /\ posted' = Append(posted, batch)
          /\ plan' = PlanBatch(RegisterBlocks[1], batch).trace
          /\ UNCHANGED requests

\* the download, once
ExportRun ==
    /\ exported = <<>>
    /\ HandleGetConfig("a")

\* the registry is emptied after the download
ForgetRun ==
    /\ exported # <<>>
    /\ HandleServerDelete("a")
    /\ UNCHANGED <<requests, posted, plan>>

\* the downloaded file is uploaded into the empty registry
ImportRun ==
    /\ exported # <<>>
    /\ \A i \in Ids : servers[i] = 0
    /\ alloc = 1
    /\ \E connected \in BOOLEAN :
          UploadServer(DecodeServer(exported[1].servers[1]), connected)
    /\ UNCHANGED <<requests, posted, plan>>

\* the device answers every read
RestorePoll == \E o \in Objs : PollCheck(o) \/ PollBody(o, 0)

NextRestore ==
    \/ RestorePlannerRun
    \/ ExportRun
    \/ ForgetRun
    \/ ImportRun
    \/ RestorePoll

SpecRestore == InitPlanner /\ [][NextRestore]_vars

\* ------------------------------------------------------------ lock order

\* SpecOrder follows every task that takes mu or a server.mu through its lock
\* calls alone: the tasks of SpecLocks without their bookkeeping of accesses
\* and request counts, a handler that picks one server under mu.RLock() and then
\* works under its server.mu (handleServerStatus; handleServer GET and
\* handleServerConfig take the same locks in the same order), and the
\* reconnection task of handleServers. No server has blocks, so a tick reads
\* nothing and the clock does not enter

\* handleServerStatus arrives at mu.RLock()
StatusArrive(id) ==
    /\ ~crashed
    /\ tasks["status"].pc = "idle"
    /\ tasks' = [tasks EXCEPT !["status"] = [NoTask EXCEPT !.pc = "rlock", !.id = id]]
    /\ UNCHANGED <<serverVars, mu, smu, access, pollTask, tickAfterRemoval, requests>>

\* mu.RLock(), servers[id], mu.RUnlock(): 404 for an id not registered
StatusLookup ==
    /\ ~crashed
    /\ tasks["status"].pc = "rlock"
    /\ CanRLock
    /\ tasks' = [tasks EXCEPT !["status"] =
                    IF servers[tasks["status"].id] = 0 THEN NoTask
                    ELSE [@ EXCEPT !.pc = "lock", !.obj = servers[tasks["status"].id]]]
    /\ UNCHANGED <<serverVars, mu, smu, access, pollTask, tickAfterRemoval, requests>>

\* server.mu.Lock()
StatusLock ==
    /\ ~crashed
    /\ tasks["status"].pc = "lock"
    /\ ~Locked(tasks["status"].obj)
    /\ smu' = [smu EXCEPT ![tasks["status"].obj] = Rd("status")]
    /\ tasks' = [tasks EXCEPT !["status"].pc = "held"]
    /\ UNCHANGED <<serverVars, mu, access, pollTask, tickAfterRemoval, requests>>

\* the template is executed from the server's fields, then the deferred
\* server.mu.Unlock()
StatusUnlock ==
    /\ ~crashed
    /\ tasks["status"].pc = "held"
    /\ smu' = [smu EXCEPT ![tasks["status"].obj] = Free]
    /\ tasks' = [tasks EXCEPT !["status"] = NoTask]
    /\ UNCHANGED <<serverVars, mu, access, pollTask, tickAfterRemoval, requests>>

\* handleServers POST and handleServer DELETE arrive and call mu.Lock()
OrderStart(t, id) ==
    /\ ~crashed
    /\ t \in {"add", "remove"}
    /\ tasks[t].pc = "idle"
    /\ IF t = "add" THEN alloc < MaxRequests /\ servers[id] = 0 ELSE servers[id] # 0
    /\ tasks' = [tasks EXCEPT ![t] = [NoTask EXCEPT !.pc = "lock", !.id = id]]
    /\ mu' = [mu EXCEPT !.pending = mu.pending \cup {Rd(t)}]
    /\ UNCHANGED <<serverVars, smu, access, pollTask, tickAfterRemoval, requests>>

\* handleServers GET and handleGetConfig: mu.RLock(), then the loop over servers
OrderListRLock(t) ==
    /\ ~crashed
    /\ t \in {"list", "export"}
    /\ tasks[t].pc = "idle"
    /\ CanRLock
    /\ mu' = [mu EXCEPT !.readers = mu.readers \cup {Rd(t)}]
    /\ tasks' = [tasks EXCEPT ![t].pc = "iter",
                              ![t].todo = {servers[i] : i \in Ids} \ {0}]
    /\ UNCHANGED <<serverVars, smu, access, pollTask, tickAfterRemoval, requests>>

\* one pass of that loop: srv.mu.Lock(), the fields, srv.mu.Unlock(), with mu
\* still read-locked
OrderListVisit(t, o) ==
    /\ ~crashed
    /\ t \in {"list", "export"}
    /\ tasks[t].pc = "iter"
    /\ o \in tasks[t].todo
    /\ ~Locked(o)
    /\ tasks' = [tasks EXCEPT ![t].todo = tasks[t].todo \ {o}]
    /\ UNCHANGED <<serverVars, mu, smu, access, pollTask, tickAfterRemoval, requests>>

\* the loop is over: mu.RUnlock()
OrderListEnd(t) ==
    /\ ~crashed
    /\ t \in {"list", "export"}
    /\ tasks[t].pc = "iter"
    /\ tasks[t].todo = {}
    /\ mu' = [mu EXCEPT !.readers = mu.readers \ {Rd(t)}]
    /\ tasks' = [tasks EXCEPT ![t] = NoTask]
    /\ UNCHANGED <<serverVars, smu, access, pollTask, tickAfterRemoval, requests>>

\* handleServers POST (the connect succeeds) from mu.Lock() on: the entry,
\* mu.Unlock(), go pollServer
OrderAddInsert ==
    /\ tasks["add"].pc = "lock"
    /\ CanLock
    /\ RegisterServer(tasks["add"].id, TRUE)
    /\ mu' = [mu EXCEPT !.pending = mu.pending \ {Rd("add")}]
    /\ tasks' = [tasks EXCEPT !["add"] = NoTask]
    /\ UNCHANGED <<smu, access, exported, requests, posted, plan>>

\* handleServer DELETE: mu.Lock(), the client closed, the entry deleted,
\* mu.Unlock()
OrderRemoveDo ==
    /\ tasks["remove"].pc = "lock"
    /\ CanLock
    /\ mu' = [mu EXCEPT !.pending = mu.pending \ {Rd("remove")}]
    /\ tasks' = [tasks EXCEPT !["remove"] = NoTask]
    /\ IF servers[tasks["remove"].id] # 0
       THEN /\ RemoveEntry(tasks["remove"].id)
            /\ UNCHANGED <<smu, access, exported, requests, posted, plan>>
       ELSE /\ ~crashed
            /\ UNCHANGED <<serverVars, smu, access, pollTask, tickAfterRemoval,
                           requests>>

\* a tick that goes back to the ticker with server.mu still locked
OrderPollReturn_KeepsLock(o) ==
    /\ ~crashed
    /\ pollTask[o] = "reading"
    /\ RegisterBlocks[o] = <<>>
    /\ ConnectionStatus' =
          [ConnectionStatus EXCEPT ![o] = IF client[o] = "nil" THEN "error" ELSE "ok"]
    /\ ConnectionError' =
          [ConnectionError EXCEPT ![o] = IF client[o] = "nil" THEN "not connected" ELSE ""]
    /\ pollTask' = [pollTask EXCEPT ![o] = "waiting"]
    /\ smu' = smu
    /\ UNCHANGED <<servers, alloc, ID, RegisterBlocks, registerMap, client,
                   LastDataReceived, dataModel, retryTask, addRetry, get, device, now,
                   crashed, lastTick, removedIds, recovered, exported, handles, removed,
                   posted, plan, mu, tasks, access, tickAfterRemoval, requests>>

\* the rest of the tick of a server without blocks: "not connected" for a nil
\* client and server.mu.Unlock(); else the empty loop over the blocks, the
\* status "connected" and server.mu.Unlock()
OrderPollReturn(o) ==
    /\ ~crashed
    /\ pollTask[o] = "reading"
    /\ RegisterBlocks[o] = <<>>
    /\ ConnectionStatus' =
          [ConnectionStatus EXCEPT ![o] = IF client[o] = "nil" THEN "error" ELSE "ok"]
    /\ ConnectionError' =
          [ConnectionError EXCEPT ![o] = IF client[o] = "nil" THEN "not connected" ELSE ""]
    /\ pollTask' = [pollTask EXCEPT ![o] = "waiting"]
    /\ smu' = [smu EXCEPT ![o] = Free]
    /\ UNCHANGED <<servers, alloc, ID, RegisterBlocks, registerMap, client,
                   LastDataReceived, dataModel, retryTask, addRetry, get, device, now,
                   crashed, lastTick, removedIds, recovered, exported, handles, removed,
                   posted, plan, mu, tasks, access, tickAfterRemoval, requests>>

NextOrder ==
    \/ \E o \in Objs :
          \/ PollCheck(o)
          \/ PollLockL(o)
          \/ OrderPollReturn(o)
          \/ \E connected \in BOOLEAN : AddRetryAttempt(o, connected)
    \/ \E id \in Ids : StatusArrive(id)
    \/ StatusLookup
    \/ StatusLock
    \/ StatusUnlock
    \/ \E t \in {"add", "remove"}, id \in Ids : OrderStart(t, id)
    \/ \E t \in {"list", "export"} :
          \/ OrderListRLock(t)
          \/ \E o \in Objs : OrderListVisit(t, o)
          \/ OrderListEnd(t)
    \/ OrderAddInsert
    \/ OrderRemoveDo

\* server "a" after an add whose connect failed: its polling task and its
\* reconnection task run, and no block is configured
InitOrder ==
    /\ servers = [i \in Ids |-> 1]
    /\ alloc = 1
    /\ ID = [o \in Objs |-> IF o = 1 THEN "a" ELSE ""]
    /\ RegisterBlocks = [o \in Objs |-> <<>>]
    /\ registerMap = [o \in Objs |-> <<>>]
    /\ client = [o \in Objs |-> "nil"]
    /\ ConnectionStatus = [o \in Objs |-> IF o = 1 THEN "error" ELSE ""]
    /\ ConnectionError = [o \in Objs |-> IF o = 1 THEN "connect failed" ELSE ""]
    /\ LastDataReceived = [o \in Objs |-> 0]
    /\ dataModel = [o \in Objs |-> EmptyBanks]
    /\ pollTask = [o \in Objs |-> IF o = 1 THEN "waiting" ELSE "none"]
    /\ retryTask = [o \in Objs |-> "none"]
    /\ addRetry = [o \in Objs |-> IF o = 1 THEN "running" ELSE "none"]
    /\ get = NoGet
    /\ device = "zero"
    /\ now = 0
    /\ crashed = FALSE
    /\ lastTick = NoTick
    /\ removedIds = {}
    /\ tickAfterRemoval = [o \in Objs |-> FALSE]
    /\ recovered = [o \in Objs |-> FALSE]
    /\ LocksIdle
    /\ exported = <<>>
    /\ handles = [o \in Objs |-> 0]
    /\ removed = [o \in Objs |-> FALSE]
    /\ requests = 0
    /\ posted = <<>>
    /\ plan = <<>>

SpecOrder == InitOrder /\ [][NextOrder]_vars

\* ------------------------------------------------------------ claims: planner

\* C1: after any sequence of planner runs on a server that started with an
\* empty block list, every stored block has length <= 125.
C1_StoredLengthAtMost125 ==
    \A i \in 1 .. Len(RegisterBlocks[1]) : RegisterBlocks[1][i].Length <= 125

\* a run split a block into two chunks or more, and a run merged a block
C1_Witness ==
    /\ \E i \in 1 .. Len(plan) : Len(plan[i].chunks) >= 2
    /\ Len(posted) = 2
    /\ \E i \in 1 .. Len(RegisterBlocks[1]) : RegisterBlocks[1][i].Length = 125

ChunksContiguous(nb, chunks) ==
    /\ (chunks # <<>>) => chunks[1].StartAddress = nb.StartAddress
    /\ \A i \in 1 .. Len(chunks) - 1 :
          chunks[i + 1].StartAddress = U16(chunks[i].StartAddress + chunks[i].Length)
    /\ \A i \in 1 .. Len(chunks) : chunks[i].Length >= 1

ChunksCoverOnce(nb, chunks) ==
    /\ SumLen(chunks) = nb.Length
    /\ UNION { Span(chunks[i]) : i \in 1 .. Len(chunks) } = Span(nb)
    /\ \A i, j \in 1 .. Len(chunks) : i # j => Span(chunks[i]) \cap Span(chunks[j]) = {}

\* C2: when a new block is split, the chunks in emission order are contiguous
\* from the block's startAddress and their spans make up the block's span
\* exactly once (addresses being 16-bit values, as the code computes them).
C2_SplitCoversSpanOnce ==
    \A i \in 1 .. Len(plan) :
        ~plan[i].merged =>
            /\ ChunksContiguous(plan[i].block, plan[i].chunks)
            /\ ChunksCoverOnce(plan[i].block, plan[i].chunks)

\* a block of 300 registers starting at 65500 was split into three chunks
C2_Witness ==
    \E i \in 1 .. Len(plan) :
        /\ ~plan[i].merged
        /\ plan[i].block.StartAddress = 65500
        /\ plan[i].block.Length = 300
        /\ Len(plan[i].chunks) = 3

SameBlockTwice ==
    /\ Len(posted) = 2
    /\ posted[1] = posted[2]
    /\ Len(posted[1]) = 1

OneBlockOfOriginalLength ==
    /\ Len(RegisterBlocks[1]) = 1
    /\ RegisterBlocks[1][1].StartAddress = posted[1][1].StartAddress
    /\ RegisterBlocks[1][1].Length = posted[1][1].Length

PollActive(o) == pollTask[o] # "none"

RetryActive(o) == retryTask[o] = "running"

AddRetryActive(o) == addRetry[o] = "running"

\* the step is a tick body of object o
TickOf(o) == now' = now + 1 /\ lastTick'.obj = o

\* C5: for every registered server exactly one of its polling task and its
\* reconnection task is active, whether the initial connect succeeded or failed.
C5_ExactlyOneTask ==
    \A o \in Objs :
        Registered(o) => (PollActive(o) # (RetryActive(o) \/ AddRetryActive(o)))

\* C6: a read error during a tick sets the status to Error(message) and no read
\* is issued for the server until a reconnection attempt succeeds; that success
\* starts a polling task again, and its next tick in which all reads succeed
\* sets the status to Ok and lastDataReceived to the time of the tick.
C6_ErrorThenRecover ==
    [][\A o \in Objs :
         /\ (TickOf(o) /\ lastTick'.failed # 0) =>
                /\ ConnectionStatus'[o] = "error"
                /\ ConnectionError'[o] # ""
         /\ (TickOf(o) /\ lastTick'.reads # <<>>) => ~RetryActive(o)
         /\ (RetryActive(o) /\ ~RetryActive(o)') => PollActive(o)'
         /\ ( /\ TickOf(o)
              /\ recovered[o]
              /\ client[o] # "nil"
              /\ lastTick'.failed = 0
              /\ Len(lastTick'.reads) = Len(RegisterBlocks[o]) ) =>
                /\ ConnectionStatus'[o] = "ok"
                /\ LastDataReceived'[o] = now'
      ]_vars

\* C7: once a server id is removed and not added again, no tick that starts
\* after the removal writes a bank, whichever task started the poller.
C7_NoWriteAfterRemoval ==
    [][\A o \in Objs : (TickOf(o) /\ lastTick'.writes > 0) => ~tickAfterRemoval[o]]_vars

\* the only server was removed while retryConnection ran; the reconnection then
\* succeeded, and the poller it started found the id gone on its first tick
C7_Witness ==
    /\ alloc = 1
    /\ removedIds = {"a"}
    /\ recovered[1]
    /\ client[1] = "open"
    /\ tickAfterRemoval[1]
    /\ pollTask[1] = "none"
    /\ RegisterBlocks[1] # <<>>

\* C8: every read request of the polling task has count <= 125, for servers
\* configured through the planner and for servers created by an upload.
C8_ReadCountAtMost125 ==
    \A i \in 1 .. Len(lastTick.reads) : lastTick.reads[i].quantity <= 125

\* C9: the polling task copies read results only into offsets [0, 9999] of the
\* bank chosen for the block, so no tick aborts the process.
C9_PollWritesInsideBanks ==
    /\ ~crashed
    /\ \A i \in 1 .. lastTick.writes :
          lastTick.reads[i].address + lastTick.reads[i].quantity <= BankSize

\* ------------------------------------------------------------ claims: routing, snapshot

\* the routing as the claim states it
ClaimedRoute(addr) ==
    IF addr < 10000 THEN [bank |-> "Coils", offset |-> addr]
    ELSE IF addr < 20000 THEN [bank |-> "DiscreteInputs", offset |-> addr - 10000]
    ELSE IF addr >= 30000 /\ addr < 40000
         THEN [bank |-> "InputRegisters", offset |-> addr - 30000]
    ELSE [bank |-> "HoldingRegisters", offset |-> U16(addr - 40000)]

\* the routing as amended: the gap goes with the input registers
AmendedRoute(addr) ==
    IF addr < 10000 THEN [bank |-> "Coils", offset |-> addr]
    ELSE IF addr < 20000 THEN [bank |-> "DiscreteInputs", offset |-> addr - 10000]
    ELSE IF addr < 40000
         THEN [bank |-> "InputRegisters", offset |-> (addr - 30000) % W16]
    ELSE [bank |-> "HoldingRegisters", offset |-> addr - 40000]

ReadCallOf(bank) ==
    IF bank = "Coils" THEN "ReadCoils"
    ELSE IF bank = "DiscreteInputs" THEN "ReadDiscreteInputs"
    ELSE IF bank = "InputRegisters" THEN "ReadInputRegisters"
    ELSE "ReadHoldingRegisters"

\* the snapshot read and the polling task both route as Route says
RoutesAs(Route(_)) ==
    /\ get.routed.bank # "" => get.routed = Route(get.addr)
    /\ \A i \in 1 .. Len(lastTick.reads) :
          LET r == lastTick.reads[i]
          IN  /\ [bank |-> r.bank, offset |-> r.address] = Route(r.start)
              /\ r.fn = ReadCallOf(r.bank)

C10_SnapshotNeverAborts == get.pc # "aborted"

\* ------------------------------------------------------------ claims: locks

\* the tasks whose progress task t is waiting for
WaitsFor(t) ==
    IF t[1] = "poll"
    THEN IF pollTask[t[2]] = "waiting" THEN mu.pending
         ELSE IF pollTask[t[2]] = "checked" THEN {smu[t[2]]} \ {Free}
         ELSE {}
    ELSE IF t[1] \in {"add", "remove"}
    THEN IF tasks[t[1]].pc = "lock" THEN mu.readers ELSE {}
    ELSE IF t[1] = "status"
    THEN IF tasks[t[1]].pc = "rlock" THEN mu.pending
         ELSE IF tasks[t[1]].pc = "lock" THEN {smu[tasks[t[1]].obj]} \ {Free}
         ELSE {}
    ELSE IF tasks[t[1]].pc = "iter" /\ tasks[t[1]].todo # {}
            /\ \A o \in tasks[t[1]].todo : smu[o] # Free
    THEN {smu[o] : o \in tasks[t[1]].todo}
    ELSE {}

\* the tasks t waits for, directly or through at most n other tasks
RECURSIVE Blockers(_, _)
Blockers(t, n) ==
    IF n = 0 THEN WaitsFor(t)
    ELSE LET near == Blockers(t, n - 1)
         IN  near \cup UNION { WaitsFor(u) : u \in near }

\* the polling task of o is inside a network read, holding o's lock
InRead(o) ==
    pollTask[o] = "reading" /\ client[o] # "nil" /\ RegisterBlocks[o] # <<>>

\* C11: while the polling task of a server is blocked inside a network read,
\* the polling task of no other server waits, directly or through other tasks'
\* locks, for that read to return.
C11_OtherServersNotStalled ==
    \A o \in Objs, other \in Objs :
        (o # other /\ InRead(other)) => P(other) \notin Blockers(P(o), 3)

\* C12: every read and every write of a mutable field of a server that other
\* tasks can reach happens while the accessing task holds that server's lock.
C12_AccessUnderServerLock == access.obj # 0 => access.locked

\* ------------------------------------------------------------ claims: export, import

\* the addresses the snapshot of object o covers
SnapshotAddresses(o) ==
    UNION { { U16(RegisterBlocks[o][k].StartAddress + i) :
                i \in 0 .. RegisterBlocks[o][k].Length - 1 } :
            k \in 1 .. Len(RegisterBlocks[o]) }

\* name and format of every address of the snapshot of object o; the default
\* name "Register <addr>" is no name of a posted config
Labels(o) ==
    [a \in SnapshotAddresses(o) |->
        IF a \in DOMAIN registerMap[o]
        THEN <<"config", registerMap[o][a].Name, RowConfig(registerMap[o], a).Format>>
        ELSE <<"default", "", RowConfig(registerMap[o], a).Format>>]

\* object 2 is the import of the file exported from object 1
Restored == exported # <<>> /\ alloc = 2 /\ servers["a"] = 2

\* C13: a server configured by planner runs, exported and imported into an
\* empty registry, has the same block list and the same name and format per
\* snapshot address as before the export.
C13_ExportImportRestores ==
    Restored => (RegisterBlocks[2] = RegisterBlocks[1] /\ Labels(2) = Labels(1))

\* ------------------------------------------------------------ claims: decoding

\* the last pass of the snapshot's row loop: its block, its config, its row
PassBlock == RegisterBlocks[get.obj][get.blk]

PassConfig == RowConfig(registerMap[get.obj], get.addr)

PassAborted == get.pc = "aborted"

PassValue == get.rows[Len(get.rows)].Value

\* the cursor is still in the block of the last pass
SameBlock == get.pc = "loop" /\ get.b = get.blk

\* an input or holding register address
RegisterAddress(a) == a >= 30000 /\ a < 50000

\* the address lies past the span of the block
PastSpan(block, a) == a >= block.StartAddress + block.Length

\* the word the data model holds for register address a
WordAt(o, a) == BankAt(dataModel[o], device, Locate(a).bank, Locate(a).offset)

\* high byte then low byte of the registers a .. a+k-1, zero past the span
RECURSIVE RegisterBytes(_, _, _, _)
RegisterBytes(o, block, a, k) ==
    IF k = 0 THEN <<>>
    ELSE LET w == IF PastSpan(block, a) THEN 0 ELSE WordAt(o, a)
         IN  <<w \div 256, w % 256>> \o RegisterBytes(o, block, a + 1, k - 1)

RECURSIVE WithoutTrailingNuls(_)
WithoutTrailingNuls(bytes) ==
    IF bytes = <<>> THEN <<>>
    ELSE IF bytes[Len(bytes)] # 0 THEN bytes
    ELSE WithoutTrailingNuls([k \in 1 .. Len(bytes) - 1 |-> bytes[k]])

\* a step of the row loop that ran one pass: a row was emitted or the request
\* was aborted
PassStep ==
    /\ get.pc = "loop"
    /\ get'.blk # 0
    /\ Len(get'.rows) > Len(get.rows) \/ get'.pc = "aborted"

StringByteDecoded ==
    (PassConfig.Format = "string-byte" /\ RegisterAddress(get.addr)
     /\ PassConfig.StringLength >= 0)
        => /\ ~PassAborted
           /\ PassValue =
                 WithoutTrailingNuls(
                     RegisterBytes(get.obj, PassBlock, get.addr,
                                   PassConfig.StringLength \div 2 + 1))
           /\ SameBlock
           /\ get.i = get.addr - PassBlock.StartAddress
                      + PassConfig.StringLength \div 2 + 1

\* C14: string-byte decoding of a register at address a with stringLength n
\* reads floor(n/2)+1 consecutive registers from a (zero past the block's
\* span), emits high byte then low byte of each, removes trailing NUL bytes and
\* advances the cursor by floor(n/2) extra positions.
C14_StringByteDecoding == [][PassStep => StringByteDecoded']_vars

FloatDecoded ==
    (PassConfig.Format = "float" /\ RegisterAddress(get.addr))
        => /\ ~PassAborted
           /\ IF PastSpan(PassBlock, get.addr + 1)
              THEN PassValue = "N/A"
              ELSE /\ Locate(get.addr + 1).bank = Locate(get.addr).bank
                   /\ PassValue =
                         [float32bits |->
                             WordAt(get.obj, get.addr) * 65536
                             + WordAt(get.obj, get.addr + 1)]
           /\ SameBlock
           /\ get.i = get.addr - PassBlock.StartAddress + 2

\* C15: float decoding of a register at address a yields "N/A" when a+1 is
\* outside the block's span; otherwise the 32-bit pattern is
\* word(a)*65536 + word(a+1), both words from the bank of a, and the cursor
\* skips a+1, which gets no row of its own.
C15_FloatDecoding == [][PassStep => FloatDecoded']_vars

\* ------------------------------------------------------------ claims: polling tick

\* the step is a tick of o's poller that ended with the given outcome
TickEnds(o, outcome) ==
    lastTick' # lastTick /\ lastTick'.obj = o /\ lastTick'.outcome = outcome

\* C16: on the first read error within a tick the status is set to the error,
\* no read is issued for the blocks after the failing one, the polling task
\* stops and exactly one reconnection task is started.
C16_ReadErrorEndsPolling ==
    [][\A o \in Objs :
          TickEnds(o, "error")
              => /\ ConnectionStatus'[o] = "error"
                 /\ ConnectionError'[o] = "read failed"
                 /\ lastTick'.failed >= 1
                 /\ Len(lastTick'.reads) = lastTick'.failed
                 /\ pollTask'[o] = "none"
                 /\ retryTask[o] = "none"
                 /\ retryTask'[o] = "running"
                 /\ lastTick'.retries = 1]_vars

\* a tick whose first block failed while a second block was waiting
C16_Witness ==
    /\ lastTick.outcome = "error"
    /\ lastTick.failed = 1
    /\ Len(lastTick.reads) = 1
    /\ Len(RegisterBlocks[lastTick.obj]) = 2
    /\ pollTask[lastTick.obj] = "none"
    /\ retryTask[lastTick.obj] = "running"

\* the step is a tick of o's poller in which no read returned an error: all
\* blocks were read, or the copy of a block that was read crashed the process
TickReadsAll(o) == TickEnds(o, "ok") \/ TickEnds(o, "panic")

\* C17: on every tick on which every block of the block list is read
\* successfully (an empty list included) the status is set to ok, the error
\* message is cleared and LastDataReceived is the time of that tick.
C17_SuccessfulTickStamps ==
    [][\A o \in Objs :
          TickReadsAll(o)
              => /\ ConnectionStatus'[o] = "ok"
                 /\ ConnectionError'[o] = ""
                 /\ LastDataReceived'[o] = lastTick'.at]_vars

\* C18: a tick that ends with a read error leaves LastDataReceived unchanged,
\* also when earlier blocks of the tick were read.
C18_FailedTickKeepsStamp ==
    [][\A o \in Objs :
          TickEnds(o, "error") => LastDataReceived'[o] = LastDataReceived[o]]_vars

\* ------------------------------------------------------------ claims: task and handle lifetime

\* a background task of object o is running: its poller, a retryConnection or
\* the retry goroutine of its creation
Active(o) == pollTask[o] # "none" \/ retryTask[o] = "running" \/ addRetry[o] = "running"

\* no task of o runs any more (none runs once the process is gone)
Stopped(o) == crashed \/ ~Active(o)

\* the steps of o's poller
PollOf(o) ==
    \/ PollCheck(o)
    \/ \E failAt \in 0 .. Len(RegisterBlocks[o]) : PollBody(o, failAt)

\* a connect attempt of one of o's retry loops that the device does not answer
FailedAttempt(o) == RetryConnection(o, FALSE) \/ AddRetryAttempt(o, FALSE)

\* every goroutine gets to run: the ticker fires, the retry loops wake up after
\* their sleep; whether a connect attempt succeeds is up to the device
Fairness == \A o \in Objs : WF_vars(PollOf(o)) /\ WF_vars(FailedAttempt(o))

SpecLive == Spec /\ Fairness

\* the wall clock of the behaviour has ticks left
ClockRuns == now < MaxNow

\* C19: after a server is removed from the registry all its background tasks
\* eventually stop, also when the device stays unreachable after the removal
\* (within the ticks of the clock that a behaviour has).
C19_TasksStopAfterRemoval ==
    \A o \in Objs : [](removed[o] => <>(Stopped(o) \/ ~ClockRuns))

\* C20: a server holds at most one open client handle at a time, and none once
\* it is removed and its tasks have stopped.
C20_OneHandleReleased ==
    \A o \in Objs :
        /\ handles[o] <= 1
        /\ (removed[o] /\ ~Active(o)) => handles[o] = 0

\* ------------------------------------------------------------ claims: creation

\* object o exists and no connect to its device has succeeded yet
NeverConnected(o) == o <= alloc /\ client[o] = "nil" /\ ~removed[o]

\* C21: a server whose initial connect fails is entered in the registry with
\* status error and a reconnection task running, and no polling task is
\* started for it until a connect succeeds.
C21_FailedConnectDefersPolling ==
    \A o \in Objs :
        NeverConnected(o)
            => /\ ConnectionStatus[o] = "error"
               /\ addRetry[o] = "running" \/ retryTask[o] = "running"
               /\ pollTask[o] = "none"

\* ------------------------------------------------------------ claims: planner run

\* the batch of the last planner run and the block list it worked on
LastBatch == posted[Len(posted)]

\* the register configs of a batch, in batch order
RECURSIVE AllRegs(_)
AllRegs(batch) ==
    IF batch = <<>> THEN <<>> ELSE Head(batch).Registers \o AllRegs(Tail(batch))

RegAddresses(batch) == { AllRegs(batch)[i].Address : i \in 1 .. Len(AllRegs(batch)) }

\* the last config of the batch for address a
LastConfig(batch, a) ==
    LET regs == AllRegs(batch)
        at == { i \in 1 .. Len(regs) : regs[i].Address = a }
    IN  regs[CHOOSE i \in at : \A j \in at : j <= i]

\* C22: after a planner run the registerMap holds exactly the register configs
\* of the incoming blocks, the last config in batch order winning per address;
\* entries from before the run that the batch does not carry are gone.
C22_RegisterMapIsLastBatch ==
    posted # <<>>
        => /\ DOMAIN registerMap[1] = RegAddresses(LastBatch)
           /\ \A a \in RegAddresses(LastBatch) :
                 registerMap[1][a] = LastConfig(LastBatch, a)

\* the second run carries one address twice with different configs and lacks an
\* address of the first run
C22_Witness ==
    /\ Len(posted) = 2
    /\ RegAddresses(posted[1]) \ RegAddresses(posted[2]) # {}
    /\ \E i, j \in 1 .. Len(AllRegs(posted[2])) :
          /\ i < j
          /\ AllRegs(posted[2])[i].Address = AllRegs(posted[2])[j].Address
          /\ AllRegs(posted[2])[i] # AllRegs(posted[2])[j]
    /\ \A a \in DOMAIN registerMap[1] : registerMap[1][a].Name = "first"

\* the new block's startAddress lies in [ex.StartAddress, ex.StartAddress+ex.Length]
InRange(nb, ex) ==
    /\ nb.StartAddress >= ex.StartAddress
    /\ nb.StartAddress <= ex.StartAddress + ex.Length

\* max(new end, existing end) - existing.startAddress
ClaimedLength(nb, ex) ==
    Max2(nb.StartAddress + nb.Length, ex.StartAddress + ex.Length) - ex.StartAddress

\* the first block of the list, in list order, that nb is in range of (0: none)
FirstInRange(nb, blocks) ==
    LET in == { k \in 1 .. Len(blocks) : InRange(nb, blocks[k]) }
    IN  IF in = {} THEN 0 ELSE CHOOSE k \in in : \A j \in in : k <= j

\* the existing blocks as the i-th new block of the last run left them
BlocksAfter(i) ==
    IF i < Len(plan) THEN plan[i + 1].before
    ELSE SubSeq(RegisterBlocks[1], 1, Len(plan[i].before))

MergedAsClaimed(e, after) ==
    /\ InRange(e.block, e.before[e.target])
    /\ Len(after) = Len(e.before)
    /\ e.chunks = <<>>
    /\ \A k \in 1 .. Len(after) :
          after[k] = IF k # e.target THEN e.before[k]
                     ELSE Blk(e.before[k].StartAddress,
                              ClaimedLength(e.block, e.before[k]),
                              e.before[k].Registers \o e.block.Registers)

\* C23: an existing block qualifies for a new block exactly when the new
\* startAddress lies in [existing.startAddress, existing.startAddress+length];
\* a merge keeps the existing startAddress, sets the length to
\* max(new end, existing end) - existing.startAddress, appends the new block's
\* configs and adds no block.
C23_QualifiesInclusiveRange ==
    \A i \in 1 .. Len(plan) :
        LET e == plan[i]
            first == FirstInRange(e.block, e.before)
        IN  /\ e.merged => MergedAsClaimed(e, BlocksAfter(i))
            /\ (first # 0 /\ ClaimedLength(e.block, e.before[first]) <= MaxRegs)
                  => (e.merged /\ e.target = first)

\* C24: only the first qualifying existing block is a merge target: when the
\* merge into it would exceed 125 registers the new block is split and not
\* merged into any later qualifying block.
C24_OnlyFirstCandidate ==
    \A i \in 1 .. Len(plan) :
        LET e == plan[i]
            first == FirstInRange(e.block, e.before)
        IN  (first # 0 /\ ClaimedLength(e.block, e.before[first]) > MaxRegs)
                => (~e.merged /\ e.chunks # <<>>)

\* how often config r is listed in regs
Occurrences(regs, r) == Cardinality({ k \in 1 .. Len(regs) : regs[k] = r })

\* how often config r is listed in the chunks whose span contains its address,
\* and in the others
InOwnChunk(chunks, r) ==
    SumLen([c \in 1 .. Len(chunks) |->
               [Length |-> IF r.Address \in Span(chunks[c])
                           THEN Occurrences(chunks[c].Registers, r) ELSE 0]])

InOtherChunk(chunks, r) ==
    SumLen([c \in 1 .. Len(chunks) |->
               [Length |-> IF r.Address \in Span(chunks[c])
                           THEN 0 ELSE Occurrences(chunks[c].Registers, r)]])

\* C25: when a new block is split, every register config of the block whose
\* address lies within the block's span is assigned to exactly one chunk, the
\* one whose span contains its address, whatever the order of the configs.
C25_ConfigsFollowChunks ==
    \A i \in 1 .. Len(plan) :
        LET e == plan[i]
            regs == e.block.Registers
        IN  ~e.merged =>
               \A k \in 1 .. Len(regs) :
                   regs[k].Address \in Span(e.block)
                       => /\ InOwnChunk(e.chunks, regs[k]) = Occurrences(regs, regs[k])
                          /\ InOtherChunk(e.chunks, regs[k]) = 0

\* the chunks of a run, in production order
RECURSIVE AllChunks(_)
AllChunks(trace) ==
    IF trace = <<>> THEN <<>> ELSE Head(trace).chunks \o AllChunks(Tail(trace))

\* the step is a planner run
RunStep == posted' # posted

\* C26: the chunks of a run are appended to the end of the block list after all
\* new blocks of the batch were processed, in production order; a new block is
\* matched only against the blocks that were in the list before the run.
C26_ChunksAppendedAfterRun ==
    [][RunStep =>
          LET old == RegisterBlocks[1]
              new == RegisterBlocks'[1]
              run == plan'
          IN  /\ Len(new) = Len(old) + Len(AllChunks(run))
              /\ SubSeq(new, Len(old) + 1, Len(new)) = AllChunks(run)
              /\ \A k \in 1 .. Len(old) : new[k].StartAddress = old[k].StartAddress
              /\ \A i \in 1 .. Len(run) :
                    /\ Len(run[i].before) = Len(old)
                    /\ run[i].target <= Len(old)]_vars

\* a run of two new blocks, both split off, the second of which starts inside
\* the chunk of the first and would fit into it
C26_Witness ==
    /\ Len(plan) = 2
    /\ ~plan[1].merged /\ ~plan[2].merged
    /\ Len(plan[1].chunks) = 1
    /\ InRange(plan[2].block, plan[1].chunks[1])
    /\ ClaimedLength(plan[2].block, plan[1].chunks[1]) <= MaxRegs
    /\ plan[2].block # plan[1].block
    /\ Len(RegisterBlocks[1]) >= 3

\* ------------------------------------------------------------ claims: snapshot rows

\* C27: the row loop of the snapshot read ends after finitely many steps: every
\* pass either aborts the request or leaves the cursor, which the block's
\* length bounds, further on than it found it, so that no pass is ever repeated.
C27_RowLoopAdvances ==
    [][PassStep => (get'.pc = "aborted" \/ (get'.b = get.b /\ get'.i > get.i))]_vars

\* the registers after the first that a value of this config takes up
ExtraRegisters(cfg) ==
    IF cfg.Format = "float" THEN 1
    ELSE IF cfg.Format = "string-byte" THEN Max2(cfg.StringLength, 0) \div 2
    ELSE IF cfg.Format = "string-word" THEN Max2(cfg.StringLength - 1, 0)
    ELSE 0

\* the addresses of a block that get a row, from position i on
RECURSIVE BlockRowAddresses(_, _, _)
BlockRowAddresses(block, regMap, i) ==
    IF i >= block.Length THEN <<>>
    ELSE LET a == block.StartAddress + i
         IN  <<a>> \o BlockRowAddresses(block, regMap,
                                        i + 1 + ExtraRegisters(RowConfig(regMap, a)))

\* the same for a block list, in list order
RECURSIVE ListRowAddresses(_, _)
ListRowAddresses(blocks, regMap) ==
    IF blocks = <<>> THEN <<>>
    ELSE BlockRowAddresses(Head(blocks), regMap, 0)
         \o ListRowAddresses(Tail(blocks), regMap)

RowAddresses == [k \in 1 .. Len(get.rows) |-> get.rows[k].Address]

IsPrefix(s, t) == Len(s) <= Len(t) /\ s = SubSeq(t, 1, Len(s))

\* the row carries the registerMap entry of its address, or the default
Labelled(row, regMap) ==
    IF row.Address \in DOMAIN regMap
    THEN row.Name = regMap[row.Address].Name /\ row.Format = regMap[row.Address].Format
    ELSE row.Name = <<"Register", row.Address>> /\ row.Format = "decimal"

\* C28: the snapshot read emits rows in block-list order and, within a block,
\* in increasing address order; an address taken up as a later register of a
\* float or string value gets no row, every other address of the block gets
\* exactly one, with the default config where the registerMap has no entry.
C28_RowsInBlockThenAddressOrder ==
    get.obj # 0
        => LET expected == ListRowAddresses(RegisterBlocks[get.obj], registerMap[get.obj])
           IN  /\ get.pc # "aborted"
               /\ IsPrefix(RowAddresses, expected)
               /\ get.pc = "done" => RowAddresses = expected
               /\ \A k \in 1 .. Len(get.rows) :
                     Labelled(get.rows[k], registerMap[get.obj])

\* ------------------------------------------------------------ claims: one poller

\* the objects created under id whose polling task is running
PollersOf(id) == { o \in Objs : ID[o] = id /\ PollActive(o) }

\* C29: at most one polling task is active for a server id, after any sequence
\* of add, import and remove operations, also for an id already registered.
C29_OnePollerPerId ==
    \A id \in Ids : Cardinality(PollersOf(id)) <= 1

\* the step starts a polling task for object o
PollerStarts(o) ==
    \/ alloc' = o /\ alloc = o - 1 /\ pollTask'[o] # "none"
    \/ retryTask[o] = "running" /\ retryTask'[o] = "none"

\* C30: for one ModbusServer object at most one polling task is active at any
\* time: a polling task is started for a new object, and after that only by a
\* reconnection task, when the polling task before it has stopped.
C30_OnePollerPerObject ==
    [][\A o \in Objs :
          /\ PollerStarts(o) => (~PollActive(o) /\ PollActive(o)')
          /\ (~PollActive(o) /\ PollActive(o)') => PollerStarts(o)]_vars

\* a reconnection has started the second polling task of an object
C30_Witness ==
    \E o \in Objs : recovered[o] /\ PollActive(o) /\ ~RetryActive(o) /\ lastTick.obj = o

\* ------------------------------------------------------------ claims: lock order

\* every task that takes a lock
LockTasks == {P(o) : o \in Objs} \cup {Rd(t) : t \in ReqTasks}

\* task t holds the lock of some server
HoldsServerLock(t) == \E o \in Objs : smu[o] = t

\* task t is inside a call of mu.RLock() or mu.Lock() that has not returned
AtRegistryLock(t) ==
    IF t[1] = "poll" THEN pollTask[t[2]] = "waiting"
    ELSE IF t[1] \in {"add", "remove"} THEN tasks[t[1]].pc = "lock"
    ELSE IF t[1] = "status" THEN tasks[t[1]].pc = "rlock"
    ELSE FALSE

\* C31: no task waits for the registry lock while it holds a server lock, and
\* no task waits, directly or through other tasks, for itself.
C31_NoDeadlock ==
    \A t \in LockTasks :
        /\ HoldsServerLock(t) => ~AtRegistryLock(t)
        /\ t \notin Blockers(t, Cardinality(LockTasks))

\* a chain of waits that ends: the status handler waits for a server lock the
\* poller holds inside its read, the listing waits for the same lock with the
\* registry read-locked, a writer waits for the listing, and another poller
\* waits behind the writer
C31_Witness ==
    \E o \in Objs, other \in Objs :
        /\ o # other
        /\ smu[o] = P(o)
        /\ tasks["status"].pc = "lock" /\ tasks["status"].obj = o
        /\ tasks["list"].pc = "iter" /\ tasks["list"].todo = {o}
        /\ tasks["remove"].pc = "lock"
        /\ pollTask[other] = "waiting"
        /\ P(o) \in Blockers(P(other), Cardinality(LockTasks))

\* ------------------------------------------------------------ claims: planner effect

\* the addresses the blocks of a list cover
Covered(blocks) == UNION { Span(blocks[k]) : k \in 1 .. Len(blocks) }

\* C32: after a planner run every address in the span of every new block of the
\* batch is covered by at least one block of the server's block list, also for
\* spans that run past 65535.
C32_BatchSpansCovered ==
    posted # <<>>
        => \A i \in 1 .. Len(LastBatch) :
              Span(LastBatch[i]) \subseteq Covered(RegisterBlocks[1])

\* C33: a planner run removes no stored block, changes no stored block's
\* startAddress, decreases no stored block's length and keeps the stored blocks
\* in their order; the server's banks, connection status, error message, client
\* handle and lastDataReceived are as before the run.
C33_RunKeepsStoredBlocks ==
    [][RunStep =>
          /\ \A o \in Objs :
                /\ Len(RegisterBlocks'[o]) >= Len(RegisterBlocks[o])
                /\ \A k \in 1 .. Len(RegisterBlocks[o]) :
                      /\ RegisterBlocks'[o][k].StartAddress
                            = RegisterBlocks[o][k].StartAddress
                      /\ RegisterBlocks'[o][k].Length >= RegisterBlocks[o][k].Length
          /\ UNCHANGED <<dataModel, ConnectionStatus, ConnectionError, client,
                         LastDataReceived>>]_vars

\* the second run merged a new block that ends before the end of the stored
\* block it was merged into, and that block has the length it had
C33_Witness ==
    /\ Len(posted) = 2
    /\ plan[1].before # <<>>
    /\ \E i \in 1 .. Len(plan) :
          /\ plan[i].merged
          /\ plan[i].block.StartAddress + plan[i].block.Length
                < plan[i].before[plan[i].target].StartAddress
                    + plan[i].before[plan[i].target].Length
          /\ RegisterBlocks[1][plan[i].target].Length
                = plan[i].before[plan[i].target].Length

\* the address ranges of the four banks
BankRanges == {<<0, 10000>>, <<10000, 20000>>, <<30000, 40000>>, <<40000, 50000>>}

\* block b lies entirely within one bank's address range
InOneBank(b) ==
    \E r \in BankRanges :
        b.StartAddress >= r[1] /\ b.StartAddress + b.Length <= r[2]

AllInOneBank(blocks) == \A k \in 1 .. Len(blocks) : InOneBank(blocks[k])

\* C34: if every stored block and every new block of a batch lies entirely
\* within one bank's address range, then after the planner run every stored
\* block does.
C34_BlocksStayInOneBank ==
    (plan # <<>> /\ AllInOneBank(plan[1].before) /\ AllInOneBank(LastBatch))
        => AllInOneBank(RegisterBlocks[1])
====
